---- MODULE Spec2Model ----
(***************************************************************************)
(* A model of the nock interpreter of zaphar/nock-repl: the noun data      *)
(* model (src/src/parser.rs), the evaluator (src/src/nock.rs), the         *)
(* tokenizer (src/src/tokenizer.rs) and the parser (src/src/parser.rs).    *)
(*                                                                         *)
(* Nouns are records: Atom(n) or Cell(list).  A Rust Result is a record    *)
(* with the field ok; an error carries its type, its message and its       *)
(* chained cause, as the structs of make_error! do.  Rust's indices are    *)
(* zero-based and TLA+ sequences one-based: list[0] is l[1] here.          *)
(***************************************************************************)
EXTENDS Integers, Sequences, FiniteSets, TLC

VARIABLES
    subj,     \* the subject noun an operation is applied to
    ops,      \* the operand nouns b, c, d a formula is built from
    addr,     \* the slot address handed to fas
    formula,  \* the formula noun handed to nock_internal
    result,   \* the Result the last operation returned
    toker,    \* Parser.toker: the Tokenizer with its reader
    shape,    \* how the source text of the reader was laid out
    expr,     \* the Result of the last Parser::parse call
    pc,       \* the last operation that ran
    ctl,      \* the reducer's control: a formula to evaluate or a Result
    stack,    \* the reducer's pending callers, innermost last
    log       \* what was handed out so far: tokens returned, lines printed

vars == <<subj, ops, addr, formula, result, toker, shape, expr, pc, ctl, stack, log>>

(***************************************************************************)
(* Bounds of the model.                                                    *)
(***************************************************************************)
\* atoms of the systematic noun universe are 0..MaxAtom
MaxAtom == 1
\* a noun of the systematic universe has at most MaxLeaves atoms in it
MaxLeaves == 4
\* slot addresses are drawn from 0..MaxAddr
MaxAddr == 15

(***************************************************************************)
(* Results and errors (src/src/macros.rs, make_error!).                    *)
(***************************************************************************)
Ok(v) == [ok |-> TRUE, val |-> v]

\* $e::new(msg)
new_error(ty, msg) == [ok |-> FALSE, ty |-> ty, msg |-> msg, cause |-> <<>>]

\* $e::new_with_cause(msg, err)
new_with_cause(ty, msg, err) ==
    [ok |-> FALSE, ty |-> ty, msg |-> msg, cause |-> <<err>>]

\* impl From<ParseError> for NockError: what try! does to a ParseError
\* inside a function that returns a NockError.
nock_from_parse(err) == new_with_cause("NockError", "AST Parse Error", err)

None == [none |-> TRUE]

(***************************************************************************)
(* The noun model (src/src/parser.rs).                                     *)
(***************************************************************************)
Atom(n) == [t |-> "Atom", v |-> n]
Cell(l) == [t |-> "Cell", l |-> l]

atom(a) == Atom(a)

IsAtom(n) == n.t = "Atom"
IsCell(n) == n.t = "Cell"

\* A list that is left as it is: a Cell in last position stays nested.
flatten_nothing(nouns) == nouns

\* Noun::flatten: pop the last noun; when it is a Cell, append its elements
\* (all but its last, then its last) in its place.  Only the last position
\* is looked at, and only one level deep.
flatten(nouns) ==
    IF Len(nouns) >= 1
    THEN LET noun == nouns[Len(nouns)]
             rest == SubSeq(nouns, 1, Len(nouns) - 1)
         IN  IF IsCell(noun)
             THEN LET head_ == noun.l[Len(noun.l)]
                      list  == SubSeq(noun.l, 1, Len(noun.l) - 1)
                  IN  (IF Len(list) > 0 THEN rest \o list ELSE rest) \o <<head_>>
             ELSE rest \o <<noun>>
    ELSE nouns

\* cell!(x, ...): Noun::Cell(Noun::flatten(vec![x, ...]))
cell(nouns) == Cell(flatten(nouns))

\* Noun::head
head(n) ==
    IF IsCell(n) /\ Len(n.l) > 0
    THEN Ok(n.l[1])
    ELSE new_error("ParseError", "!! Atoms or ~ have no head")

\* Noun::tail: the slice list[1..]
tail(n) ==
    IF IsCell(n) /\ Len(n.l) > 1
    THEN Ok(SubSeq(n.l, 2, Len(n.l)))
    ELSE new_error("ParseError", "!! Atoms or cells of (len < 2) have no tail")

(***************************************************************************)
(* The evaluator's primitives (src/src/nock.rs).                           *)
(***************************************************************************)
slice_to_noun(nouns) ==
    IF Len(nouns) > 1 THEN Ok(Cell(nouns))
    ELSE IF Len(nouns) = 1 THEN Ok(nouns[1])
    ELSE new_error("NockError", "!! Nock Empty Cell")

\* try!(slice_to_noun(try!(n.tail()))): the tail of n as a noun
tail_noun_of(n) ==
    LET t == tail(n)
    IN  IF t.ok THEN slice_to_noun(t.val) ELSE nock_from_parse(t)

\* try!(n.head()) inside a function returning a NockError
head_of(n) ==
    LET h == head(n)
    IN  IF h.ok THEN h ELSE nock_from_parse(h)

\* The loop of make_tree_path: push_front(next % 2 == 0); next = next / 2;
\* leave when next <= 1.
RECURSIVE make_tree_path_loop(_, _)
make_tree_path_loop(ret, next) ==
    LET ret2  == <<next % 2 = 0>> \o ret
        next2 == next \div 2
    IN  IF next2 <= 1 THEN ret2 ELSE make_tree_path_loop(ret2, next2)

\* A path that is built back to front (push_back for push_front).
make_tree_path_reversed(a) ==
    LET p == make_tree_path_loop(<<>>, a)
    IN  [i \in 1..Len(p) |-> p[Len(p) + 1 - i]]

make_tree_path(a) == make_tree_path_loop(<<>>, a)

\* The for loop of fas over the path.
RECURSIVE fas_loop(_, _)
fas_loop(subject, path) ==
    IF path = <<>> THEN Ok(subject)
    ELSE LET step == IF path[1] THEN head_of(subject) ELSE tail_noun_of(subject)
         IN  IF step.ok THEN fas_loop(step.val, Tail(path)) ELSE step

\* A fas that takes address 0 for the root, as address 1.
fas_zero_is_root(s, a) ==
    IF a <= 1 THEN Ok(s)
    ELSE IF a = 2 THEN head_of(s)
    ELSE IF a = 3 THEN tail_noun_of(s)
    ELSE fas_loop(s, make_tree_path(a))

\* fas: addresses 0 to 3 are answered at once, the others by the path
fas(s, a) ==
    IF a = 0 THEN new_error("NockError", "!! Invalid slot address 0")
    ELSE IF a = 1 THEN Ok(s)
    ELSE IF a = 2 THEN head_of(s)
    ELSE IF a = 3 THEN tail_noun_of(s)
    ELSE fas_loop(s, make_tree_path(a))

wut(noun) == IF IsAtom(noun) THEN atom(1) ELSE atom(0)

\* lus that returns its atom as it is.
lus_no_increment(noun) ==
    IF IsAtom(noun) THEN Ok(atom(noun.v))
    ELSE new_error("NockError", "!! Can't increment a cell")

\* lus: a + 1 on a u64.  The atoms of this model stay far below 2^64 - 1,
\* where the addition overflows (a panic in a debug build, 0 in a release
\* build); that one atom is outside what is checked here.
lus(noun) ==
    IF IsAtom(noun) THEN Ok(atom(noun.v + 1))
    ELSE new_error("NockError", "!! Can't increment a cell")

truthy == atom(0)
falsy == atom(1)

\* cmp_noun(a, b) with b a slice of nouns.  The for loop returns falsy at
\* the first element that differs, truthy when none does.
RECURSIVE cmp_noun(_, _)
cmp_noun(a, b) ==
    IF IsCell(a)
    THEN IF Len(b) = 1 /\ IsCell(b[1])
         THEN cmp_noun(a, b[1].l)
         ELSE IF Len(a.l) # Len(b)
         THEN falsy
         ELSE IF \E i \in 1..Len(a.l) : cmp_noun(a.l[i], <<b[i]>>) = falsy
         THEN falsy
         ELSE truthy
    ELSE IF Len(b) = 1 /\ IsAtom(b[1]) /\ a.v = b[1].v
         THEN truthy
         ELSE falsy

\* cmp_noun with the result inverted: 1 for equal, 0 for different.
tis_inverted(noun) ==
    IF IsAtom(noun)
    THEN new_error("NockError", "!! Can't compaire Atom like a cell")
    ELSE IF Len(noun.l) >= 2
    THEN Ok(IF cmp_noun(noun.l[1], SubSeq(noun.l, 2, Len(noun.l))) = truthy
            THEN falsy ELSE truthy)
    ELSE new_error("NockError", "!! Can't compare a cell of only one Noun")

tis(noun) ==
    IF IsAtom(noun)
    THEN new_error("NockError", "!! Can't compaire Atom like a cell")
    ELSE IF Len(noun.l) >= 2
    THEN Ok(cmp_noun(noun.l[1], SubSeq(noun.l, 2, Len(noun.l))))
    ELSE new_error("NockError", "!! Can't compare a cell of only one Noun")

(***************************************************************************)
(* The evaluator (src/src/nock.rs, nock_internal and compute).             *)
(***************************************************************************)
\* A Rust panic (an index out of range): it unwinds through every caller.
panic(msg) == [ok |-> FALSE, ty |-> "panic", msg |-> msg, cause |-> <<>>]

\* try!(cell.tail()) inside nock_internal: the slice, or the NockError
tail_of(n) ==
    LET t == tail(n)
    IN  IF t.ok THEN t ELSE nock_from_parse(t)

\* opcode 6: the formula the macro builds from the tail slice
\*   [2 [0 1] 2 [1 c d] [1 0] 2 [1 2 3] [1 0] 4 4 b]
macro_6(b, c, d) ==
    cell(<<atom(2),
           cell(<<atom(0), atom(1)>>),
           atom(2),
           cell(<<atom(1), c, d>>),
           cell(<<atom(1), atom(0)>>),
           atom(2),
           cell(<<atom(1), atom(2), atom(3)>>),
           cell(<<atom(1), atom(0)>>),
           atom(4),
           atom(4),
           b>>)

\* A rewrite of opcode 7 into opcode 7: [7 b c]
macro_7_again(b, c) == cell(<<atom(7), b, c>>)

\* opcode 7: [2 b 1 c]
macro_7(b, c) == cell(<<atom(2), b, atom(1), c>>)

\* opcode 8: [7 [[7 [0 1] b] 0 1] c]
macro_8(b, c) ==
    cell(<<atom(7),
           cell(<<cell(<<atom(7), cell(<<atom(0), atom(1)>>), b>>),
                  atom(0),
                  atom(1)>>),
           c>>)

\* opcode 9: [7 c 2 [0 1] 0 b]
macro_9(b, c) ==
    cell(<<atom(7), c, atom(2), cell(<<atom(0), atom(1)>>), atom(0), b>>)

\* opcode 10 with a Cell hint: [8 c 7 [0 3] d]
macro_10(c, d) ==
    cell(<<atom(8), c, atom(7), cell(<<atom(0), atom(3)>>), d>>)

RECURSIVE nock_internal(_, _)

\* The arm of nock_internal for a formula whose head is the Atom a.
nock_opcode(s, cell_, a) ==
    CASE a = 0 ->
           LET t == tail_noun_of(cell_)
           IN  IF ~t.ok THEN t
               ELSE IF IsAtom(t.val) THEN fas(s, t.val.v)
               ELSE new_error("NockError", "!! not a slot index")
      [] a = 1 -> tail_noun_of(cell_)
      [] a = 2 ->
           LET t == tail_noun_of(cell_)
           IN  IF ~t.ok THEN t ELSE nock_internal(s, t.val)
      [] a = 3 ->
           LET t == tail_noun_of(cell_)
           IN  IF ~t.ok THEN t
               ELSE LET r == nock_internal(s, t.val)
                    IN  IF ~r.ok THEN r ELSE Ok(wut(r.val))
      [] a = 4 ->
           LET t == tail_noun_of(cell_)
           IN  IF ~t.ok THEN t
               ELSE IF IsCell(t.val)
               THEN LET r == nock_internal(s, t.val)
                    IN  IF ~r.ok THEN r ELSE lus(r.val)
               ELSE lus(t.val)
      [] a = 5 ->
           LET t == tail_noun_of(cell_)
           IN  IF ~t.ok THEN t ELSE tis(t.val)
      [] a = 6 ->
           LET t == tail_of(cell_)
           IN  IF ~t.ok THEN t
               ELSE IF Len(t.val) < 3
               THEN new_error("NockError", "!! Need 3 Nouns for macro 6")
               ELSE LET d == slice_to_noun(SubSeq(t.val, 3, Len(t.val)))
                    IN  IF ~d.ok THEN d
                        ELSE nock_internal(s, macro_6(t.val[1], t.val[2], d.val))
      [] a = 7 ->
           LET t == tail_of(cell_)
           IN  IF ~t.ok THEN t
               ELSE IF Len(t.val) < 2
               THEN new_error("NockError", "!! Need 2 Nouns for macro 7")
               ELSE nock_internal(s, macro_7(t.val[1], t.val[2]))
      [] a = 8 ->
           LET t == tail_of(cell_)
           IN  IF ~t.ok THEN t
               ELSE IF Len(t.val) < 2
               THEN new_error("NockError", "!! Need 2 Nouns for macro 8")
               ELSE nock_internal(s, macro_8(t.val[1], t.val[2]))
      [] a = 9 ->
           LET t == tail_of(cell_)
           IN  IF ~t.ok THEN t
               ELSE IF Len(t.val) < 2
               THEN new_error("NockError", "!! Need 2 Nouns for macro 9")
               ELSE nock_internal(s, macro_9(t.val[1], t.val[2]))
      [] a = 10 ->
           LET t == tail_of(cell_)
           IN  IF ~t.ok THEN t
               ELSE IF Len(t.val) < 2
               THEN new_error("NockError", "!! Need at least 2 Nouns for macro 6")
               ELSE LET b == t.val[1]
                        c == t.val[2]
                    IN  IF IsAtom(b) THEN nock_internal(s, c)
                        ELSE IF Len(b.l) < 1
                        THEN panic("slice index starts at 1 but ends at 0")
                        ELSE LET c2 == slice_to_noun(SubSeq(b.l, 2, Len(b.l)))
                             IN  IF ~c2.ok THEN c2
                                 ELSE nock_internal(s, macro_10(c2.val, c))
      [] OTHER -> new_error("NockError", "!! Unknown Nock instruction")

\* A distribution that evaluates its tail before its head.
nock_distribute_tail_first(s, cell_, head_formula) ==
    LET new_formula == tail_noun_of(cell_)
    IN  IF ~new_formula.ok THEN new_formula
        ELSE LET tail_noun == nock_internal(s, new_formula.val)
             IN  IF ~tail_noun.ok THEN tail_noun
                 ELSE LET head_ == nock_internal(s, head_formula)
                      IN  IF ~head_.ok THEN head_
                          ELSE Ok(cell(<<head_.val, tail_noun.val>>))

\* A distribution that pairs the two results without flattening.
nock_distribute_unflattened(s, cell_, head_formula) ==
    LET head_ == nock_internal(s, head_formula)
    IN  IF ~head_.ok THEN head_
        ELSE LET new_formula == tail_noun_of(cell_)
             IN  IF ~new_formula.ok THEN new_formula
                 ELSE LET tail_noun == nock_internal(s, new_formula.val)
                      IN  IF ~tail_noun.ok THEN tail_noun
                          ELSE Ok(Cell(<<head_.val, tail_noun.val>>))

\* The distribution arm: the head of the formula is a Cell.
nock_distribute(s, cell_, head_formula) ==
    LET head_ == nock_internal(s, head_formula)
    IN  IF ~head_.ok THEN head_
        ELSE LET new_formula == tail_noun_of(cell_)
             IN  IF ~new_formula.ok THEN new_formula
                 ELSE LET tail_noun == nock_internal(s, new_formula.val)
                      IN  IF ~tail_noun.ok THEN tail_noun
                          ELSE Ok(cell(<<head_.val, tail_noun.val>>))

nock_internal(s, f) ==
    IF IsAtom(f) THEN new_error("NockError", "!! Nock Infinite Loop")
    ELSE LET h == head_of(f)
         IN  IF ~h.ok THEN h
             ELSE IF IsAtom(h.val) THEN nock_opcode(s, f, h.val.v)
             ELSE nock_distribute(s, f, h.val)

\* An evaluation that takes Atom(0) as the subject and the whole expression
\* as the formula.
compute_whole(noun) == nock_internal(Atom(0), noun)

\* compute: an Atom is evaluated against the subject 0; a Cell of 2 or more
\* elements is split into its head, the subject, and its tail, the formula.
compute(noun) ==
    IF IsAtom(noun) THEN nock_internal(Atom(0), noun)
    ELSE IF Len(noun.l) >= 2
    THEN LET h == head_of(noun)
             t == tail_noun_of(noun)
         IN  IF ~h.ok THEN h
             ELSE IF ~t.ok THEN t
             ELSE nock_internal(h.val, t.val)
    ELSE new_error("NockError", "!! Invalid Nock Expression")

(***************************************************************************)
(* The systematic noun universe: every well-formed noun (each Cell has at  *)
(* least 2 elements and no Cell as its last element) with atoms in         *)
(* 0..MaxAtom and at most MaxLeaves atoms in it.                           *)
(***************************************************************************)
\* The pair [h t] in its flattened shape.
Cons(h, t) == Cell(<<h>> \o (IF IsCell(t) THEN t.l ELSE <<t>>))

RECURSIVE NounsOfSize(_)
NounsOfSize(k) ==
    IF k = 1 THEN {Atom(n) : n \in 0..MaxAtom}
    ELSE UNION {{Cons(h, t) : h \in NounsOfSize(i), t \in NounsOfSize(k - i)} :
                i \in 1..(k - 1)}

WFNouns == UNION {NounsOfSize(k) : k \in 1..MaxLeaves}

\* The cells [x x] of a noun with itself: the equal comparands of tis.
Doubles == {Cons(x, x) : x \in WFNouns}

RECURSIVE WellFormed(_)
WellFormed(n) ==
    IsAtom(n) \/ (/\ Len(n.l) >= 2
                  /\ IsAtom(n.l[Len(n.l)])
                  /\ \A i \in 1..Len(n.l) : WellFormed(n.l[i]))

(***************************************************************************)
(* The binary-tree reading of a noun: an atom is a leaf, a cell            *)
(* [e1 e2 ... ek] is the pair of e1 and [e2 ... ek].                       *)
(***************************************************************************)
Leaf(n) == [leaf |-> TRUE, v |-> n]
Pair(l, r) == [leaf |-> FALSE, l |-> l, r |-> r]

RECURSIVE ToTree(_)
RECURSIVE ListToTree(_)
ListToTree(l) ==
    IF Len(l) = 1 THEN ToTree(l[1])
    ELSE Pair(ToTree(l[1]), ListToTree(Tail(l)))

ToTree(n) == IF IsAtom(n) THEN Leaf(n.v) ELSE ListToTree(n.l)

NoSlot == [noslot |-> TRUE]

\* Slot b of a binary tree: 1 is the root, 2n the left child of n and
\* 2n + 1 its right child; NoSlot when a step meets a leaf.
RECURSIVE TreeSlot(_, _)
TreeSlot(tr, b) ==
    IF b = 1 THEN tr
    ELSE LET up == TreeSlot(tr, b \div 2)
         IN  IF up = NoSlot \/ up.leaf THEN NoSlot
             ELSE IF b % 2 = 0 THEN up.l ELSE up.r

(***************************************************************************)
(* SpecNoun: the primitives fas, tis, lus and wut applied to a noun.       *)
(***************************************************************************)
InitNoun ==
    /\ subj \in WFNouns \cup Doubles
    /\ addr \in 0..MaxAddr
    /\ ops = <<>>
    /\ formula = None
    /\ result = None
    /\ toker = None
    /\ shape = "none"
    /\ expr = None
    /\ ctl = None
    /\ stack = <<>>
    /\ log = <<>>
    /\ pc = "ready"

DoFas ==
    /\ pc = "ready"
    /\ result' = fas(subj, addr)
    /\ pc' = "fas"
    /\ UNCHANGED <<ctl, stack, log, subj, ops, addr, formula, toker, shape, expr>>

DoTis ==
    /\ pc = "ready"
    /\ result' = tis(subj)
    /\ pc' = "tis"
    /\ UNCHANGED <<ctl, stack, log, subj, ops, addr, formula, toker, shape, expr>>

DoLus ==
    /\ pc = "ready"
    /\ result' = lus(subj)
    /\ pc' = "lus"
    /\ UNCHANGED <<ctl, stack, log, subj, ops, addr, formula, toker, shape, expr>>

DoWut ==
    /\ pc = "ready"
    /\ result' = Ok(wut(subj))
    /\ pc' = "wut"
    /\ UNCHANGED <<ctl, stack, log, subj, ops, addr, formula, toker, shape, expr>>

\* nock_internal(subj, [0 b]) for the Atom b = addr and for a Cell b
DoSlot ==
    /\ pc = "ready"
    /\ \E b \in {atom(addr)} \cup (IF IsCell(subj) THEN {subj} ELSE {}) :
          /\ formula' = cell(<<atom(0), b>>)
          /\ result' = nock_internal(subj, formula')
    /\ pc' = "slot"
    /\ UNCHANGED <<ctl, stack, log, subj, ops, addr, toker, shape, expr>>

NextNoun == DoFas \/ DoTis \/ DoLus \/ DoWut \/ DoSlot

SpecNoun == InitNoun /\ [][NextNoun]_vars

(***************************************************************************)
(* C1: for every well-formed subject and every address b >= 1, fas agrees  *)
(* with the binary-tree reference: fas(s, 1) is s, fas(s, 2n) is the head  *)
(* and fas(s, 2n + 1) the tail of fas(s, n), and fas is an error exactly   *)
(* when a step of the path needs the head or tail of an atom.  The result  *)
(* is again a well-formed noun.                                            *)
(***************************************************************************)
C1_FasAgreesWithTree ==
    (pc = "fas" /\ addr >= 1) =>
        LET ref == TreeSlot(ToTree(subj), addr)
        IN  /\ result.ok <=> (ref # NoSlot)
            /\ result.ok => (ToTree(result.val) = ref /\ WellFormed(result.val))
            /\ ~result.ok => result.ty = "NockError"

\* fas has walked a path of three steps that mixes heads and tails (address
\* 13 is the tail of the head of the tail) and found a noun there.
C1_Witness ==
    pc = "fas" /\ addr = 13 /\ result.ok /\ IsCell(subj) /\ Len(subj.l) = 3

(***************************************************************************)
(* C6: for a well-formed Cell n, tis(n) is Atom(0) when the first element  *)
(* of n is structurally equal to the noun formed by the remaining elements *)
(* and Atom(1) otherwise; a noun compared with itself is equal at any      *)
(* nesting depth; tis of an Atom is an error.                              *)
(***************************************************************************)
C6_TisIsStructuralEquality ==
    pc = "tis" =>
        IF IsAtom(subj) THEN ~result.ok /\ result.ty = "NockError"
        ELSE LET first == ToTree(subj.l[1])
                 rest  == ListToTree(Tail(subj.l))
             IN  /\ result = Ok(IF first = rest THEN Atom(0) ELSE Atom(1))
                 /\ subj \in Doubles => result = Ok(Atom(0))

\* tis has compared two equal comparands that hold a nested cell.
C6_Witness ==
    /\ pc = "tis" /\ result = Ok(Atom(0))
    /\ IsCell(subj) /\ IsCell(subj.l[1])
    /\ \E i \in 1..Len(subj.l[1].l) : IsCell(subj.l[1].l[i])

(***************************************************************************)
(* C13: an invalid slot address is an error, never a value: fas(s, 0) is a *)
(* NockError for every subject s, fas(s, b) is a NockError whenever the    *)
(* path of b descends into an Atom of s, and evaluating [0 b] is fas for   *)
(* an Atom b and a NockError for a b that is no Atom.                      *)
(***************************************************************************)
C13_InvalidSlotIsError ==
    /\ (pc = "fas" /\ addr = 0) => (~result.ok /\ result.ty = "NockError")
    /\ (pc = "fas" /\ addr >= 1 /\ TreeSlot(ToTree(subj), addr) = NoSlot) =>
           (~result.ok /\ result.ty = "NockError")
    /\ pc = "slot" =>
           LET b == tail_noun_of(formula).val
           IN  IF IsAtom(b)
               THEN /\ result = fas(subj, b.v)
                    /\ b.v = 0 => (~result.ok /\ result.ty = "NockError")
               ELSE ~result.ok /\ result.ty = "NockError"

\* fas was asked for address 12 of a Cell of three atoms, the shape of
\* [531 25 99], and failed.
C13_Witness ==
    /\ pc = "fas" /\ addr = 12 /\ ~result.ok
    /\ IsCell(subj) /\ Len(subj.l) = 3 /\ \A i \in 1..3 : IsAtom(subj.l[i])

(***************************************************************************)
(* Spec: nock_internal applied to a subject and a formula [k b ...] that   *)
(* cell! builds from an opcode k and one to three operand nouns.           *)
(***************************************************************************)
\* a subject of Spec has at most MaxSubjLeaves atoms in it
MaxSubjLeaves == 2

Subjects == UNION {NounsOfSize(k) : k \in 1..MaxSubjLeaves}

\* Operand formulas: slot 1, 2 and 3, the quoted loobeans 0 and 1, a quoted
\* atom that is no loobean, and increment of the subject.
FormulaOperands ==
    { Cell(<<Atom(0), Atom(1)>>),
      Cell(<<Atom(0), Atom(2)>>),
      Cell(<<Atom(0), Atom(3)>>),
      Cell(<<Atom(1), Atom(0)>>),
      Cell(<<Atom(1), Atom(1)>>),
      Cell(<<Atom(1), Atom(7)>>),
      Cell(<<Atom(4), Atom(0), Atom(1)>>) }

Operands == {Atom(n) : n \in 0..MaxAtom} \cup FormulaOperands

OperandTuples == UNION {[1..n -> Operands] : n \in 1..3}

\* the opcodes 0..10 and one that is unknown
Opcodes == 0..11

Init ==
    /\ subj \in Subjects
    /\ ops \in OperandTuples
    /\ addr = 0
    /\ formula = None
    /\ result = None
    /\ toker = None
    /\ shape = "none"
    /\ expr = None
    /\ ctl = None
    /\ stack = <<>>
    /\ log = <<>>
    /\ pc = "ready"

\* nock_internal(subj, cell!(k, b, ...))
Nock(k) ==
    /\ pc = "ready"
    /\ formula' = cell(<<atom(k)>> \o ops)
    /\ result' = nock_internal(subj, formula')
    /\ pc' = "nock"
    /\ UNCHANGED <<ctl, stack, log, subj, ops, addr, toker, shape, expr>>

Next == \E k \in Opcodes : Nock(k)

Spec == Init /\ [][Next]_vars

\* The state after nock_internal ran on [k b], [k b c] or [k b c d].
Ran(k, n) == pc = "nock" /\ Len(ops) = n /\ formula = cell(<<atom(k)>> \o ops)

\* Two Results are the same outcome: the same noun, or an error in both.
SameOutcome(r1, r2) == (r1.ok <=> r2.ok) /\ (r1.ok => r1.val = r2.val)

\* The noun [e1 e2 ... ek] of a list of nouns, in its flattened shape.
RECURSIVE ConsList(_)
ConsList(l) == IF Len(l) = 1 THEN l[1] ELSE Cons(l[1], ConsList(Tail(l)))

(***************************************************************************)
(* C2: opcode 6 is if/then/else: where evaluating b against a yields       *)
(* Atom(0), evaluating [6 b c d] against a returns the result of           *)
(* evaluating c against a; where b yields Atom(1), the result of           *)
(* evaluating d against a.                                                 *)
(***************************************************************************)
C2_IfThenElse ==
    Ran(6, 3) =>
        LET b == nock_internal(subj, ops[1])
        IN  /\ b = Ok(Atom(0)) => SameOutcome(result, nock_internal(subj, ops[2]))
            /\ b = Ok(Atom(1)) => SameOutcome(result, nock_internal(subj, ops[3]))

(***************************************************************************)
(* C3: opcode 7 is the rewrite to [2 b 1 c]: for every subject a and all   *)
(* nouns b and c, c an Atom or a Cell, evaluating [7 b c] against a has    *)
(* the same outcome as evaluating the formula [2 b 1 c] against a.         *)
(***************************************************************************)
C3_ComposeIsRewrite ==
    Ran(7, 2) =>
        SameOutcome(result,
                    nock_internal(subj, cell(<<atom(2), ops[1], atom(1), ops[2]>>)))

(***************************************************************************)
(* C4: opcode 8 pushes the result of b onto the subject: where b evaluates *)
(* against a to a noun r, evaluating [8 b c] against a returns the result  *)
(* of evaluating c against the new subject [r a].                          *)
(***************************************************************************)
C4_PushOntoSubject ==
    Ran(8, 2) =>
        LET r == nock_internal(subj, ops[1])
        IN  r.ok => SameOutcome(result, nock_internal(Cons(r.val, subj), ops[2]))

(***************************************************************************)
(* C5: opcode 10 with an Atom hint discards the hint: for every Atom b and *)
(* every formula c, evaluating [10 b c] against a has the same outcome as  *)
(* evaluating c against a.                                                 *)
(***************************************************************************)
C5_AtomHintDiscarded ==
    (Ran(10, 2) /\ IsAtom(ops[1])) =>
        SameOutcome(result, nock_internal(subj, ops[2]))

(***************************************************************************)
(* C9: opcode 4 increments: when the flattened tail of [4 ...] is an Atom  *)
(* b the result is Atom(b + 1) whatever the subject; when it is a Cell it  *)
(* is evaluated as a formula against the subject, and an Atom v it yields  *)
(* gives Atom(v + 1), a Cell it yields is an error, and an error of that   *)
(* evaluation is the outcome.                                              *)
(***************************************************************************)
C9_Increment ==
    (pc = "nock" /\ formula = cell(<<atom(4)>> \o ops)) =>
        LET t == ConsList(ops)
        IN  IF IsAtom(t) THEN result = Ok(Atom(t.v + 1))
            ELSE LET r == nock_internal(subj, t)
                 IN  IF ~r.ok THEN result = r
                     ELSE IF IsAtom(r.val) THEN result = Ok(Atom(r.val.v + 1))
                     ELSE ~result.ok /\ result.ty = "NockError"
                          /\ result.msg = "!! Can't increment a cell"

\* [4 b] ran with a Cell b whose evaluation gave an Atom, which was
\* incremented.
C9_Witness ==
    /\ Ran(4, 1) /\ IsCell(ops[1])
    /\ nock_internal(subj, ops[1]).ok
    /\ result.ok /\ IsAtom(result.val) /\ result.val.v >= 1

(***************************************************************************)
(* The tokenizer (src/src/tokenizer.rs).  A character is a one-character   *)
(* string, a line a sequence of characters.  An operation that changes the *)
(* tokenizer returns the pair of its Result and the tokenizer after it.    *)
(***************************************************************************)
Digits == <<"0", "1", "2", "3", "4", "5", "6", "7", "8", "9">>

IsDigit(c) == \E i \in 1..10 : Digits[i] = c

\* char::is_whitespace on a byte read as a char
is_whitespace(c) == c \in {" ", "\t", "\n", "\r", "\f"}

Some(x) == <<x>>
NoneOpt == <<>>

\* A token that carries its column as its line and its line as its column.
new_token_swapped(c, line, col) == [line |-> col, col |-> line, val |-> <<c>>]

\* Token::new(c, line, col)
new_token(c, line, col) == [line |-> line, col |-> col, val |-> <<c>>]

append_char(tok, c) == [tok EXCEPT !.val = Append(@, c)]

is_atom(tok) == Len(tok.val) > 0 /\ IsDigit(tok.val[1])
is_cell_start(tok) == Len(tok.val) > 0 /\ tok.val = <<"[">>
is_cell_end(tok) == Len(tok.val) > 0 /\ tok.val = <<"]">>

\* MockReader::new(expr)
new_mock_reader(lines) == [kind |-> "mock", expr |-> lines, err |-> FALSE]

\* MockReader::read: the lines once, then an error for ever
mock_read(rd) ==
    IF ~rd.err
    THEN [res |-> Ok(rd.expr), rd |-> [rd EXCEPT !.err = TRUE]]
    ELSE [res |-> new_error("WrappedError", "End Of Stream"), rd |-> rd]

\* the error at the end of a chain of causes
RECURSIVE root_cause(_)
root_cause(err) == IF err.cause = <<>> THEN err ELSE root_cause(err.cause[1])

\* FileExpressionReader::new and open, text the characters of the file and
\* rest those that are not read yet.  buffer (with more) is the local buffer of a read() that is running, and returned
\* holds the results of the read() calls that have returned and that the
\* parse() in progress has asked for.
new_file_reader(text) ==
    [kind |-> "file", text |-> text, rest |-> text, eof |-> FALSE,
     buffer |-> <<>>, more |-> 0, returned |-> <<>>]

\* the length of the line BufRead::read_line takes from the rest of the
\* file: up to the first newline, the newline included, or all of it
line_len(rest) ==
    IF \E i \in 1..Len(rest) : rest[i] = "\n"
    THEN CHOOSE i \in 1..Len(rest) :
            rest[i] = "\n" /\ \A j \in 1..(i - 1) : rest[j] # "\n"
    ELSE Len(rest)

\* rdr.read_line(&mut line): the line, and the rest of the file after it
read_line(rest) ==
    [line |-> SubSeq(rest, 1, line_len(rest)),
     rest |-> SubSeq(rest, line_len(rest) + 1, Len(rest))]

\* is_complete_expr, the count after the loops: +1 for '[', -1 for ']'
RECURSIVE bracket_count(_)
bracket_count(chars) ==
    IF chars = <<>> THEN 0
    ELSE (IF Head(chars) = "[" THEN 1 ELSE IF Head(chars) = "]" THEN -1 ELSE 0)
         + bracket_count(Tail(chars))

RECURSIVE lines_count(_)
lines_count(lines) ==
    IF lines = <<>> THEN 0
    ELSE bracket_count(Head(lines)) + lines_count(Tail(lines))

\* is_complete_expr
is_complete_expr(lines) == lines_count(lines) = 0

\* the read() of the file reader has not returned yet
pending == new_error("Pending", "read() is running")

Pending(res) == ~res.ok /\ root_cause(res).ty = "Pending"

\* FileExpressionReader::read as the parser sees it: the result of the next
\* call that has returned
file_read(rd) ==
    IF rd.returned # <<>>
    THEN [res |-> Head(rd.returned), rd |-> [rd EXCEPT !.returned = Tail(@)]]
    ELSE [res |-> pending, rd |-> rd]

\* ExpressionReader::read of the boxed reader
reader_read(rd) == IF rd.kind = "mock" THEN mock_read(rd) ELSE file_read(rd)

\* Tokenizer::new(reader)
new_tokenizer(reader) ==
    [curr |-> NoneOpt, line |-> 0, col |-> 0, reader |-> reader]

\* A tokenizer that reads a new batch at every call.
needs_consume_always(tk) == TRUE

\* consume_reader, the test that sets consume
needs_consume(tk) ==
    IF tk.curr # NoneOpt THEN tk.line >= Len(tk.curr[1]) ELSE TRUE

\* consume_reader, the branch if consume { ... } with r the outcome of
\* reader.read(): line and col are reset before the read and stay reset
\* when the read fails, and curr is only replaced by a read that succeeds.
consume_read(tk, r) ==
    LET tk1 == [tk EXCEPT !.line = 0, !.col = 0, !.reader = r.rd]
    IN  IF r.res.ok
        THEN [res |-> Ok(<<>>), tk |-> [tk1 EXCEPT !.curr = Some(r.res.val)]]
        ELSE [res |-> new_with_cause("TokenizerError", "Read Error", r.res),
              tk  |-> tk1]

\* Tokenizer::consume_reader
consume_reader(tk) ==
    IF needs_consume(tk)
    THEN consume_read(tk, reader_read(tk.reader))
    ELSE [res |-> Ok(<<>>), tk |-> tk]

\* get_next_char after its try!(self.consume_reader()), c the outcome of
\* that call: the character with its line and column.
next_char_at(c) ==
    IF ~c.res.ok THEN c
    ELSE IF c.tk.curr = NoneOpt
    THEN [res |-> new_error("TokenizerError", "End of stream"), tk |-> c.tk]
    ELSE IF c.tk.line >= Len(c.tk.curr[1])
    THEN [res |-> panic("index out of bounds"), tk |-> c.tk]
    ELSE IF c.tk.col >= Len(c.tk.curr[1][c.tk.line + 1])
    THEN [res |-> Ok(<<"\n", c.tk.line, c.tk.col>>),
          tk  |-> [c.tk EXCEPT !.line = @ + 1, !.col = 0]]
    ELSE [res |-> Ok(<<c.tk.curr[1][c.tk.line + 1][c.tk.col + 1],
                       c.tk.line, c.tk.col>>),
          tk  |-> [c.tk EXCEPT !.col = @ + 1]]

\* Tokenizer::get_next_char
get_next_char(tk) == next_char_at(consume_reader(tk))

\* A pushback that leaves the cursor where it is.
pushback_nothing(tk, len) == tk

\* Tokenizer::pushback
pushback(tk, len) == [tk EXCEPT !.col = @ - len]

RECURSIVE gobble_atom(_, _)

\* One turn of the loop of gobble_atom, r the outcome of get_next_char: an
\* error of get_next_char ends the run with the token read so far.
gobble_char(r, tok) ==
    IF ~r.res.ok
    THEN IF r.res.ty = "panic" \/ Pending(r.res) THEN r
         ELSE [res |-> Ok(tok), tk |-> r.tk]
    ELSE IF is_whitespace(r.res.val[1]) THEN [res |-> Ok(tok), tk |-> r.tk]
    ELSE IF r.res.val[1] = "." THEN gobble_atom(r.tk, tok)
    ELSE IF ~IsDigit(r.res.val[1])
    THEN [res |-> Ok(tok), tk |-> pushback(r.tk, 1)]
    ELSE gobble_atom(r.tk, append_char(tok, r.res.val[1]))

\* Tokenizer::gobble_atom
gobble_atom(tk, tok) == gobble_char(get_next_char(tk), tok)

RECURSIVE get_next_token(_)

\* One turn of the loop of get_next_token, r the outcome of get_next_char.
token_char(r) ==
    IF ~r.res.ok THEN r
    ELSE IF r.res.val[1] = "[" \/ r.res.val[1] = "]"
    THEN [res |-> Ok(new_token(r.res.val[1], r.res.val[2], r.res.val[3])),
          tk  |-> r.tk]
    ELSE IF IsDigit(r.res.val[1]) \/ r.res.val[1] = "."
    THEN gobble_atom(r.tk, new_token(r.res.val[1], r.res.val[2], r.res.val[3]))
    ELSE IF r.res.val[1] \in {" ", "\t", "\n", "\r"}
    THEN get_next_token(r.tk)
    ELSE [res |-> new_error("TokenizerError", "Invalid Character"), tk |-> r.tk]

\* Tokenizer::get_next_token
get_next_token(tk) == token_char(get_next_char(tk))

\* next after its try!(self.consume_reader()), c the outcome of that call
next_after(c) == IF ~c.res.ok THEN c ELSE get_next_token(c.tk)

\* Tokenizer::next
next(tk) == next_after(consume_reader(tk))

(***************************************************************************)
(* The parser and the rendering of nouns (src/src/parser.rs).              *)
(***************************************************************************)
DigitValue(c) == CHOOSE i \in 0..9 : Digits[i + 1] = c

\* u64::from_str on a run of digits: the decimal value, most significant
\* digit first.  The runs of this model are short; a run whose value passes
\* 2^64 - 1, which from_str refuses, is outside what is checked here.
RECURSIVE from_str(_)
from_str(val) ==
    IF Len(val) = 0 THEN 0
    ELSE from_str(SubSeq(val, 1, Len(val) - 1)) * 10 + DigitValue(val[Len(val)])

\* A rendering of a u64 that writes its last digit only.
fmt_u64_last_digit(u) == <<Digits[(u % 10) + 1]>>

\* write!(fmt, "{}", u) of a u64: its decimal digits
RECURSIVE fmt_u64(_)
fmt_u64(u) ==
    IF u < 10 THEN <<Digits[u + 1]>>
    ELSE fmt_u64(u \div 10) \o <<Digits[(u % 10) + 1]>>

\* impl Display for Noun
RECURSIVE fmt(_)
RECURSIVE fmt_rest(_)
fmt_rest(list) ==
    IF Len(list) = 0 THEN <<>>
    ELSE <<" ">> \o fmt(list[1]) \o fmt_rest(Tail(list))

fmt(noun) ==
    IF IsAtom(noun) THEN fmt_u64(noun.v)
    ELSE <<"[">> \o (IF Len(noun.l) > 0 THEN fmt(noun.l[1]) ELSE <<>>)
                \o (IF Len(noun.l) > 1 THEN fmt_rest(Tail(noun.l)) ELSE <<>>)
                \o <<"]">>

\* Parser::parse_atom
parse_atom(tok) ==
    IF \A i \in 1..Len(tok.val) : IsDigit(tok.val[i])
    THEN Ok(Atom(from_str(tok.val)))
    ELSE new_error("ParseError", "Atom ParseError")

\* impl From<TokenizerError> for ParseError: what try! does to an error of
\* the tokenizer inside the parser (a panic unwinds as it is).
parse_from_token(r) ==
    IF r.res.ty = "panic" THEN r
    ELSE [res |-> new_with_cause("ParseError", "Tokenizer Error", r.res),
          tk  |-> r.tk]

RECURSIVE parse(_)
RECURSIVE parse_cell(_)
RECURSIVE parse_cell_loop(_, _)

\* list.push(try!(...)) in the loop of parse_cell, n the outcome of
\* parse_atom or parse_cell with the tokenizer after it
parse_cell_push(n, list) ==
    IF ~n.res.ok THEN n ELSE parse_cell_loop(n.tk, Append(list, n.res.val))

\* One turn of the loop of parse_cell, r the outcome of self.toker.next():
\* a token that is no atom, no "[" and no "]" is passed over.
parse_cell_token(r, list) ==
    IF ~r.res.ok THEN parse_from_token(r)
    ELSE IF is_atom(r.res.val)
    THEN parse_cell_push([res |-> parse_atom(r.res.val), tk |-> r.tk], list)
    ELSE IF is_cell_start(r.res.val)
    THEN parse_cell_push(parse_cell(r.tk), list)
    ELSE IF is_cell_end(r.res.val)
    THEN [res |-> Ok(Cell(flatten(list))), tk |-> r.tk]
    ELSE parse_cell_loop(r.tk, list)

\* The loop of parse_cell.
parse_cell_loop(tk, list) == parse_cell_token(next(tk), list)

\* parse_cell after list.push(try!(self.parse())), first the outcome of
\* that parse
parse_cell_first(first) ==
    IF ~first.res.ok THEN first
    ELSE parse_cell_loop(first.tk, <<first.res.val>>)

\* Parser::parse_cell
parse_cell(tk) == parse_cell_first(parse(tk))

\* parse after its try!(self.toker.next()), r the outcome of that call
parse_token(r) ==
    IF ~r.res.ok THEN parse_from_token(r)
    ELSE IF is_atom(r.res.val)
    THEN [res |-> parse_atom(r.res.val), tk |-> r.tk]
    ELSE IF is_cell_start(r.res.val) THEN parse_cell(r.tk)
    ELSE [res |-> new_error("ParseError", "Unhandled Token!"), tk |-> r.tk]

\* Parser::parse
parse(tk) == parse_token(next(tk))

\* Parser::new(Box::new(MockReader::new(lines)))
new_parser(lines) == new_tokenizer(new_mock_reader(lines))

(***************************************************************************)
(* SpecParse: the read-eval loop of main (eval_exprs) on a Parser over a   *)
(* MockReader that holds one line of source text: parse, and while the     *)
(* parse succeeds compute the expression, print and parse again.           *)
(***************************************************************************)
\* a raw source line has at most MaxTextLen characters
MaxTextLen == 6

RawChars == {"[", "]", "1", " ", "."}

RawTexts == UNION {[1..n -> RawChars] : n \in 0..MaxTextLen}

\* the nouns a, b, c, d that are rendered into a source line: atoms and
\* pairs of atoms
ParseNouns == NounsOfSize(1) \cup NounsOfSize(2)

\* "[a [b c]]"
TextNestedLast(a, b, c) ==
    <<"[">> \o fmt(a) \o <<" ", "[">> \o fmt(b) \o <<" ">> \o fmt(c) \o <<"]", "]">>

\* "[a b c]"
TextFlat(a, b, c) ==
    <<"[">> \o fmt(a) \o <<" ">> \o fmt(b) \o <<" ">> \o fmt(c) \o <<"]">>

\* "[a [b c] d]"
TextNestedMid(a, b, c, d) ==
    <<"[">> \o fmt(a) \o <<" ", "[">> \o fmt(b) \o <<" ">> \o fmt(c)
            \o <<"]", " ">> \o fmt(d) \o <<"]">>

\* "[a [3 0 1]]"
TextIsCell(a) ==
    <<"[">> \o fmt(a) \o <<" ", "[", "3", " ", "0", " ", "1", "]", "]">>

\* "[a [0 1]]"
TextSlotOne(a) ==
    <<"[">> \o fmt(a) \o <<" ", "[", "0", " ", "1", "]", "]">>

\* the nouns that are rendered and parsed back: atoms of one, two and three
\* digits and the well-formed cells of up to MaxRenderLeaves of them
MaxRenderLeaves == 3

RenderAtoms == {Atom(0), Atom(7), Atom(10), Atom(205)}

RECURSIVE RenderNounsOfSize(_)
RenderNounsOfSize(k) ==
    IF k = 1 THEN RenderAtoms
    ELSE UNION {{Cons(h, t) : h \in RenderNounsOfSize(i),
                              t \in RenderNounsOfSize(k - i)} : i \in 1..(k - 1)}

RenderNouns == UNION {RenderNounsOfSize(k) : k \in 1..MaxRenderLeaves}

\* The expressions as they are written: a digit run as it is spelled (plain,
\* with a leading zero, with a dot in it) and cells of 2 or 3 expressions,
\* a cell in last position written with its own brackets.
Spellings == {<<"1">>, <<"0", "1">>, <<"1", ".", "0">>}

SynAtoms == {[t |-> "Atom", sp |-> sp] : sp \in Spellings}

SynPairs == {[t |-> "Cell", l |-> <<a, b>>] : a \in SynAtoms, b \in SynAtoms}

SynTrees ==
    SynAtoms
        \cup {[t |-> "Cell", l |-> l] : l \in [1..2 -> SynAtoms \cup SynPairs]}
        \cup {[t |-> "Cell", l |-> l] : l \in [1..3 -> SynAtoms]}

\* the blank between two expressions, and the blank inside the brackets
Separators == {<<" ">>, <<" ", " ">>, <<"\t">>}
Paddings == {<<>>, <<" ">>}

\* the text of a written expression
RECURSIVE SynText(_, _, _)
RECURSIVE SynTextRest(_, _, _)
SynTextRest(list, sep, pad) ==
    IF Len(list) = 0 THEN <<>>
    ELSE sep \o SynText(list[1], sep, pad) \o SynTextRest(Tail(list), sep, pad)

SynText(syn, sep, pad) ==
    IF syn.t = "Atom" THEN syn.sp
    ELSE <<"[">> \o pad \o SynText(syn.l[1], sep, pad)
                \o SynTextRest(Tail(syn.l), sep, pad) \o pad \o <<"]">>

\* The text of a written expression with its blanks normalised to single
\* spaces and the brackets of a cell in last position dropped; a digit run
\* is kept as it is spelled, or (decimal) written as the decimal digits of
\* its value.
RECURSIVE SynCanon(_, _)
RECURSIVE SynCanonList(_, _)
SynCanonList(list, decimal) ==
    IF Len(list) = 1
    THEN IF list[1].t = "Cell" THEN SynCanonList(list[1].l, decimal)
         ELSE SynCanon(list[1], decimal)
    ELSE SynCanon(list[1], decimal) \o <<" ">> \o SynCanonList(Tail(list), decimal)

SynCanon(syn, decimal) ==
    IF syn.t = "Atom"
    THEN IF decimal THEN fmt_u64(from_str(SelectSeq(syn.sp, IsDigit))) ELSE syn.sp
    ELSE <<"[">> \o SynCanonList(syn.l, decimal) \o <<"]">>

\* a formula that is evaluated, step by step or from source text, has at
\* most MaxStepOperands operands
MaxStepOperands == 3

\* the subjects of these formulas: an Atom and a Cell
StepSubjects == {atom(0), cell(<<atom(0), atom(1)>>)}

\* their operands: an atom, formulas of the plain opcodes (slot 2
\* fails against an Atom subject) and the formula of a macro opcode
StepOperands ==
    {atom(1),
     cell(<<atom(0), atom(2)>>),
     cell(<<atom(1), atom(0)>>),
     cell(<<atom(4), atom(0), atom(1)>>),
     cell(<<atom(7), cell(<<atom(0), atom(1)>>), atom(4), atom(0), atom(1)>>)}

StepTuples == UNION {[1..n -> StepOperands] : n \in 1..MaxStepOperands}

\* the formulas built from a tuple of operands: [k b ...] for each opcode
\* k, and [b c ...] itself when b is a Cell and there is a c
StepFormulas(tuple) ==
    {cell(<<atom(k)>> \o tuple) : k \in Opcodes}
        \cup (IF Len(tuple) >= 2 /\ IsCell(tuple[1]) THEN {cell(tuple)} ELSE {})

\* a noun written with every Cell as a pair: [e1 e2 ... ek] is written
\* "[e1 [e2 [... ek]]]"
RECURSIVE ConsText(_)
RECURSIVE ConsTextRest(_)
ConsTextRest(list) ==
    IF Len(list) = 1 THEN ConsText(list[1])
    ELSE <<"[">> \o ConsText(list[1]) \o <<" ">> \o ConsTextRest(Tail(list)) \o <<"]">>

ConsText(noun) == IF IsAtom(noun) THEN fmt_u64(noun.v) ELSE ConsTextRest(noun.l)

\* the two ways to write the expression [subject formula]: as Display
\* prints it, and with every Cell as a pair
EvalTexts(s, f) == {fmt(cell(<<s, f>>)), ConsText(Cell(<<s, f>>))}

InitParse ==
    /\ addr = 0
    /\ result = None
    /\ expr = None
    /\ ctl = None
    /\ stack = <<>>
    /\ log = <<>>
    /\ pc = "ready"
    /\ \/ /\ shape = "raw"
          /\ formula = None
          /\ subj = Atom(0)
          /\ ops = <<>>
          /\ \E text \in RawTexts : toker = new_parser(<<text>>)
       \/ /\ shape = "nested_last"
          /\ formula = None
          /\ subj = Atom(0)
          /\ ops \in [1..3 -> ParseNouns]
          /\ toker = new_parser(<<TextNestedLast(ops[1], ops[2], ops[3])>>)
       \/ /\ shape = "flat"
          /\ formula = None
          /\ subj = Atom(0)
          /\ ops \in [1..3 -> ParseNouns]
          /\ toker = new_parser(<<TextFlat(ops[1], ops[2], ops[3])>>)
       \/ /\ shape = "nested_mid"
          /\ formula = None
          /\ subj = Atom(0)
          /\ ops \in [1..4 -> ParseNouns]
          /\ toker = new_parser(<<TextNestedMid(ops[1], ops[2], ops[3], ops[4])>>)
       \/ /\ shape = "is_cell"
          /\ formula = None
          /\ subj \in WFNouns
          /\ ops = <<>>
          /\ toker = new_parser(<<TextIsCell(subj)>>)
       \/ /\ shape = "slot_one"
          /\ formula = None
          /\ subj \in WFNouns
          /\ ops = <<>>
          /\ toker = new_parser(<<TextSlotOne(subj)>>)
       \/ /\ shape = "render"
          /\ formula = None
          /\ subj \in RenderNouns
          /\ ops = <<>>
          /\ toker = new_parser(<<fmt(subj)>>)
       \/ /\ shape = "layout"
          /\ subj = Atom(0)
          /\ formula = None
          /\ ops \in [1..1 -> SynTrees]
          /\ \E sep \in Separators, pad \in Paddings :
                toker = new_parser(<<SynText(ops[1], sep, pad)>>)
       \/ /\ shape = "evaluate"
          /\ subj \in StepSubjects
          /\ ops \in StepTuples
          /\ formula \in StepFormulas(ops)
          /\ \E text \in EvalTexts(subj, formula) : toker = new_parser(<<text>>)

\* while let Ok(expr) = nock_parser.parse()
Parsed(p) ==
    /\ expr' = p.res
    /\ toker' = p.tk
    /\ pc' = IF p.res.ok THEN "parsed" ELSE "stopped"

Parse ==
    /\ pc \in {"ready", "printed"}
    /\ Parsed(parse(toker))
    /\ UNCHANGED <<ctl, stack, log, subj, ops, addr, formula, result, shape>>

\* impl Display for $e of make_error!: the type and the message, then the
\* chain of causes
RECURSIVE display_error(_)
display_error(err) ==
    <<err.ty, err.msg>>
        \o (IF err.cause = <<>> THEN <<>>
            ELSE <<"Cause:">> \o display_error(err.cause[1]))

\* println!("{}", noun) and println!("{}", err)
printed_line(r) == IF r.ok THEN fmt(r.val) ELSE display_error(r)

\* the body of the loop: evaluate the expression and print the outcome.
\* main.rs names the evaluation nock::eval; the public entry point that
\* nock.rs defines is compute, and it is compute that runs here.  A panic
\* of the evaluation ends the process with nothing printed.
Evaluated(r) ==
    /\ result' = r
    /\ IF ~r.ok /\ r.ty = "panic"
       THEN pc' = "panicked" /\ log' = log
       ELSE pc' = "printed" /\ log' = Append(log, printed_line(r))

Eval ==
    /\ pc = "parsed"
    /\ Evaluated(compute(expr.val))
    /\ UNCHANGED <<ctl, stack, subj, ops, addr, formula, toker, shape, expr>>

NextParse == Parse \/ Eval

SpecParse == InitParse /\ [][NextParse]_vars

\* the elements a noun contributes when it stands last in a list
Elems(n) == IF IsCell(n) THEN n.l ELSE <<n>>

RECURSIVE MinTwo(_)
MinTwo(n) ==
    IsAtom(n) \/ (Len(n.l) >= 2 /\ \A i \in 1..Len(n.l) : MinTwo(n.l[i]))

(***************************************************************************)
(* C7: parsing "[a [b c]]" yields the same Cell as parsing "[a b c]", the  *)
(* elements of the Cell in last position spliced into the enclosing list;  *)
(* parsing "[a [b c] d]" keeps the Cell [b c] as a nested element, and the *)
(* elements that are not last are left as they are.                        *)
(***************************************************************************)
C7_ParserAutocons ==
    /\ (pc = "parsed" /\ shape = "nested_last") =>
          /\ expr = Ok(Cell(<<ops[1], ops[2]>> \o Elems(ops[3])))
          /\ expr = parse(new_parser(<<TextFlat(ops[1], ops[2], ops[3])>>)).res
    /\ (pc = "parsed" /\ shape = "flat") =>
          expr = Ok(Cell(<<ops[1], ops[2]>> \o Elems(ops[3])))
    /\ (pc = "parsed" /\ shape = "nested_mid") =>
          /\ expr = Ok(Cell(<<ops[1], Cons(ops[2], ops[3])>> \o Elems(ops[4])))
          /\ expr.val.l[1] = ops[1]
          /\ expr.val.l[2] = Cell(<<ops[2]>> \o Elems(ops[3]))
    /\ (pc = "stopped" /\ shape \in {"nested_last", "flat", "nested_mid"}) =>
          result # None

\* "[a [b c]]" was parsed with a Cell a, which stays nested, and a Cell c,
\* whose elements were spliced after b.
C7_Witness ==
    /\ pc = "parsed" /\ shape = "nested_last"
    /\ IsCell(ops[1]) /\ IsCell(ops[3])
    /\ expr.ok /\ Len(expr.val.l) = 4

(***************************************************************************)
(* C8: parse() returns an error or a noun in which every Cell, at any      *)
(* depth, has at least 2 elements; "[x]" is rejected with a parse error.   *)
(***************************************************************************)
C8_CellsHaveTwoElements ==
    pc = "parsed" => MinTwo(expr.val)

(***************************************************************************)
(* C10: compute takes the first element of a top-level Cell as the subject *)
(* and the remaining elements as the formula: compute of the parse of      *)
(* "[a [3 0 1]]" is Atom(0) when a is a Cell and Atom(1) when a is an      *)
(* Atom, and compute of the parse of "[a [0 1]]" is a itself.              *)
(***************************************************************************)
C10_ComputeSplitsSubjectAndFormula ==
    /\ (pc = "parsed" /\ shape \in {"is_cell", "slot_one"}) =>
          expr.val.l[1] = subj
    /\ (pc = "printed" /\ shape = "is_cell") =>
          result = Ok(Atom(IF IsCell(subj) THEN 0 ELSE 1))
    /\ (pc = "printed" /\ shape = "slot_one") =>
          result = Ok(subj)
    /\ (pc = "stopped" /\ shape \in {"is_cell", "slot_one"}) =>
          result # None

\* "[a [3 0 1]]" was parsed and computed for a Cell a that holds a Cell.
C10_Witness ==
    /\ pc = "printed" /\ shape = "is_cell"
    /\ IsCell(subj) /\ IsCell(subj.l[1])
    /\ result = Ok(Atom(0))

(***************************************************************************)
(* SpecStep: nock_internal as a reducer that takes one reduction step at a *)
(* time.  ctl is what the reducer looks at, a formula to evaluate against  *)
(* a subject or the Result of an evaluation that ended; stack holds, for   *)
(* each call of nock_internal that waits for an inner call, what it does   *)
(* with the Result of that call.  try! pops the waiting callers one by one *)
(* with the error.                                                         *)
(***************************************************************************)
\* nock_internal(subj, formula) is entered
to_eval(s, f) == [k |-> "eval", s |-> s, f |-> f]

\* a call of nock_internal returned r
to_ret(r) == [k |-> "ret", r |-> r]

\* opcode 3: wut of the Result of the inner call
frame_wut == [k |-> "wut"]

\* opcode 4: lus of the Result of the inner call
frame_lus == [k |-> "lus"]

\* distribution, waiting for the head: the tail is evaluated next
frame_head(s, cell_) == [k |-> "dist_head", s |-> s, cell_ |-> cell_]

\* distribution, waiting for the tail: holds the noun the head gave
frame_tail(head_) == [k |-> "dist_tail", head_ |-> head_]

\* opcodes 6 to 10: the formula the arm hands to nock_internal, or the
\* error (or panic) the arm ends with before it builds one.
macro_expand(cell_, a) ==
    LET t == tail_of(cell_)
    IN  IF ~t.ok THEN t
        ELSE IF a = 6
        THEN IF Len(t.val) < 3
             THEN new_error("NockError", "!! Need 3 Nouns for macro 6")
             ELSE LET d == slice_to_noun(SubSeq(t.val, 3, Len(t.val)))
                  IN  IF ~d.ok THEN d
                      ELSE Ok(macro_6(t.val[1], t.val[2], d.val))
        ELSE IF Len(t.val) < 2
        THEN new_error("NockError",
                       CASE a = 7 -> "!! Need 2 Nouns for macro 7"
                         [] a = 8 -> "!! Need 2 Nouns for macro 8"
                         [] a = 9 -> "!! Need 2 Nouns for macro 9"
                         [] OTHER -> "!! Need at least 2 Nouns for macro 6")
        ELSE IF a = 7 THEN Ok(macro_7(t.val[1], t.val[2]))
        ELSE IF a = 8 THEN Ok(macro_8(t.val[1], t.val[2]))
        ELSE IF a = 9 THEN Ok(macro_9(t.val[1], t.val[2]))
        ELSE IF IsAtom(t.val[1]) THEN Ok(t.val[2])
        ELSE IF Len(t.val[1].l) < 1
        THEN panic("slice index starts at 1 but ends at 0")
        ELSE LET c2 == slice_to_noun(SubSeq(t.val[1].l, 2, Len(t.val[1].l)))
             IN  IF ~c2.ok THEN c2 ELSE Ok(macro_10(c2.val, t.val[2]))

\* the reducer looks at a formula
Evaluating == pc = "running" /\ ctl.k = "eval"

\* the reducer looks at the Result of a call that ended
Returning == pc = "running" /\ ctl.k = "ret"

\* the opcode of the formula the reducer looks at, -1 when it has none
OpcodeOf(f) ==
    IF IsCell(f) /\ head_of(f).ok /\ IsAtom(head_of(f).val)
    THEN head_of(f).val.v ELSE -1

\* the outermost call nock_internal(subj, formula)
Start ==
    /\ pc = "ready"
    /\ ctl' = to_eval(subj, formula)
    /\ pc' = "running"
    /\ UNCHANGED <<stack, log, subj, ops, addr, formula, result, toker, shape, expr>>

\* Noun::Atom(_) => Err("!! Nock Infinite Loop"), and a Cell that has no head
StepNoHead ==
    /\ Evaluating
    /\ IsAtom(ctl.f) \/ ~head_of(ctl.f).ok
    /\ ctl' = to_ret(nock_internal(ctl.s, ctl.f))
    /\ UNCHANGED <<stack, log, subj, ops, addr, formula, result, toker, shape, expr, pc>>

\* opcodes 0, 1 and 5 and an unknown opcode: the arm returns with no inner
\* call of nock_internal
StepDirect ==
    /\ Evaluating
    /\ OpcodeOf(ctl.f) \in {0, 1, 5} \/ OpcodeOf(ctl.f) > 10
    /\ ctl' = to_ret(nock_opcode(ctl.s, ctl.f, OpcodeOf(ctl.f)))
    /\ UNCHANGED <<stack, log, subj, ops, addr, formula, result, toker, shape, expr, pc>>

\* opcode 2: return nock_internal(subj, tail)
StepNock ==
    /\ Evaluating
    /\ OpcodeOf(ctl.f) = 2
    /\ ctl' = IF tail_noun_of(ctl.f).ok
              THEN to_eval(ctl.s, tail_noun_of(ctl.f).val)
              ELSE to_ret(tail_noun_of(ctl.f))
    /\ UNCHANGED <<stack, log, subj, ops, addr, formula, result, toker, shape, expr, pc>>

\* opcode 3: wut(try!(nock_internal(subj, tail)))
StepWut ==
    /\ Evaluating
    /\ OpcodeOf(ctl.f) = 3
    /\ IF tail_noun_of(ctl.f).ok
       THEN /\ ctl' = to_eval(ctl.s, tail_noun_of(ctl.f).val)
            /\ stack' = Append(stack, frame_wut)
       ELSE /\ ctl' = to_ret(tail_noun_of(ctl.f))
            /\ stack' = stack
    /\ UNCHANGED <<log, subj, ops, addr, formula, result, toker, shape, expr, pc>>

\* opcode 4: lus of the tail, a Cell tail evaluated first
StepLus ==
    /\ Evaluating
    /\ OpcodeOf(ctl.f) = 4
    /\ IF ~tail_noun_of(ctl.f).ok
       THEN /\ ctl' = to_ret(tail_noun_of(ctl.f))
            /\ stack' = stack
       ELSE IF IsCell(tail_noun_of(ctl.f).val)
       THEN /\ ctl' = to_eval(ctl.s, tail_noun_of(ctl.f).val)
            /\ stack' = Append(stack, frame_lus)
       ELSE /\ ctl' = to_ret(lus(tail_noun_of(ctl.f).val))
            /\ stack' = stack
    /\ UNCHANGED <<log, subj, ops, addr, formula, result, toker, shape, expr, pc>>

\* opcodes 6 to 10: return nock_internal(subj, rewritten formula)
StepMacro ==
    /\ Evaluating
    /\ OpcodeOf(ctl.f) \in 6..10
    /\ ctl' = IF macro_expand(ctl.f, OpcodeOf(ctl.f)).ok
              THEN to_eval(ctl.s, macro_expand(ctl.f, OpcodeOf(ctl.f)).val)
              ELSE to_ret(macro_expand(ctl.f, OpcodeOf(ctl.f)))
    /\ UNCHANGED <<stack, log, subj, ops, addr, formula, result, toker, shape, expr, pc>>

\* head_formula => let head = try!(nock_internal(subj, head_formula.clone()))
StepDistHead ==
    /\ Evaluating
    /\ IsCell(ctl.f) /\ head_of(ctl.f).ok /\ IsCell(head_of(ctl.f).val)
    /\ ctl' = to_eval(ctl.s, head_of(ctl.f).val)
    /\ stack' = Append(stack, frame_head(ctl.s, ctl.f))
    /\ UNCHANGED <<log, subj, ops, addr, formula, result, toker, shape, expr, pc>>

\* the top of the stack and the stack below it
Top == stack[Len(stack)]
Below == SubSeq(stack, 1, Len(stack) - 1)

\* try!: an inner call returned an Err, the waiting caller returns it
ReturnErr ==
    /\ Returning /\ stack # <<>> /\ ~ctl.r.ok
    /\ stack' = Below
    /\ UNCHANGED <<ctl, log, subj, ops, addr, formula, result, toker, shape, expr, pc>>

\* the inner call of opcode 3 or 4 returned a noun
ReturnUnary ==
    /\ Returning /\ stack # <<>> /\ ctl.r.ok
    /\ Top.k \in {"wut", "lus"}
    /\ ctl' = to_ret(IF Top.k = "wut" THEN Ok(wut(ctl.r.val)) ELSE lus(ctl.r.val))
    /\ stack' = Below
    /\ UNCHANGED <<log, subj, ops, addr, formula, result, toker, shape, expr, pc>>

\* the head of a distribution returned a noun:
\* let new_formula = try!(slice_to_noun(try!(cell.tail())));
\* let tail_noun = try!(nock_internal(subj, new_formula))
StepDistTail ==
    /\ Returning /\ stack # <<>> /\ ctl.r.ok
    /\ Top.k = "dist_head"
    /\ IF tail_noun_of(Top.cell_).ok
       THEN /\ ctl' = to_eval(Top.s, tail_noun_of(Top.cell_).val)
            /\ stack' = Append(Below, frame_tail(ctl.r.val))
       ELSE /\ ctl' = to_ret(tail_noun_of(Top.cell_))
            /\ stack' = Below
    /\ UNCHANGED <<log, subj, ops, addr, formula, result, toker, shape, expr, pc>>

\* the tail of a distribution returned a noun: Ok(cell!(head, tail_noun))
ReturnDist ==
    /\ Returning /\ stack # <<>> /\ ctl.r.ok
    /\ Top.k = "dist_tail"
    /\ ctl' = to_ret(Ok(cell(<<Top.head_, ctl.r.val>>)))
    /\ stack' = Below
    /\ UNCHANGED <<log, subj, ops, addr, formula, result, toker, shape, expr, pc>>

\* the outermost call returned
Finish ==
    /\ Returning /\ stack = <<>>
    /\ result' = ctl.r
    /\ pc' = "done"
    /\ UNCHANGED <<ctl, stack, log, subj, ops, addr, formula, toker, shape, expr>>

NextStep ==
    \/ Start
    \/ StepNoHead
    \/ StepDirect
    \/ StepNock
    \/ StepWut
    \/ StepLus
    \/ StepMacro
    \/ StepDistHead
    \/ ReturnErr
    \/ ReturnUnary
    \/ StepDistTail
    \/ ReturnDist
    \/ Finish

InitStep ==
    /\ subj \in StepSubjects
    /\ ops \in StepTuples
    /\ formula \in StepFormulas(ops)
    /\ addr = 0
    /\ result = None
    /\ toker = None
    /\ shape = "none"
    /\ expr = None
    /\ ctl = None
    /\ stack = <<>>
    /\ log = <<>>
    /\ pc = "ready"

SpecStep == InitStep /\ [][NextStep]_vars

\* The reducer is a sequential program: while a step is possible it takes it.
SpecStepFair == SpecStep /\ WF_vars(NextStep)

\* the formula is a Cell whose head is a Cell
Distributes(f) == IsCell(f) /\ head_of(f).ok /\ IsCell(head_of(f).val)

(***************************************************************************)
(* C11: for a formula whose head is a Cell, head formula and tail formula  *)
(* are each evaluated against the same unchanged subject and the result is *)
(* the cell [eval(head) eval(tail)]; the head is evaluated first: the tail *)
(* formula is only entered once the head has given a noun, and when the    *)
(* head fails the outcome is the head's error.                             *)
(***************************************************************************)
C11_DistributionHeadFirst ==
    Distributes(formula) =>
        LET hd == nock_internal(subj, head_of(formula).val)
            tl == nock_internal(subj, tail_noun_of(formula).val)
        IN  /\ (pc = "running" /\ ctl.k = "eval") => ctl.s = subj
            /\ (pc = "running" /\ stack # <<>> /\ stack[1].k = "dist_tail") =>
                   hd.ok /\ stack[1].head_ = hd.val
            /\ pc = "done" =>
                   /\ result = nock_internal(subj, formula)
                   /\ IF ~hd.ok THEN result = hd
                      ELSE IF ~tl.ok THEN result = tl
                      ELSE /\ result.ok
                           /\ ToTree(result.val) = Pair(ToTree(hd.val), ToTree(tl.val))

\* A distribution ran to its end with a head and a tail that both gave a
\* Cell.
C11_Witness ==
    /\ pc = "done" /\ Distributes(formula) /\ result.ok
    /\ IsCell(nock_internal(subj, head_of(formula).val).val)
    /\ IsCell(nock_internal(subj, tail_noun_of(formula).val).val)

\* A distribution ended with the error of its head, and its tail formula
\* alone would have given a noun.
C11_HeadFailed ==
    /\ pc = "done" /\ Distributes(formula) /\ ~result.ok
    /\ ~nock_internal(subj, head_of(formula).val).ok
    /\ nock_internal(subj, tail_noun_of(formula).val).ok

(***************************************************************************)
(* C12: evaluation terminates: from every subject and formula the reducer  *)
(* reaches a result noun or an error after finitely many reduction steps,  *)
(* the formulas of the macro opcodes 6 to 10 and their nestings included.  *)
(***************************************************************************)
C12_EvaluationTerminates == <>(pc = "done")

\* The reducer went through a macro opcode whose operand is itself the
\* formula of a macro opcode, and came to an end.
C12_Witness ==
    /\ pc = "done"
    /\ OpcodeOf(formula) \in 6..10
    /\ \E i \in 1..Len(ops) : OpcodeOf(ops[i]) \in 6..10

\* the first expression of the source text was parsed
FirstParsed == pc = "parsed" /\ result = None

(***************************************************************************)
(* C14: render/parse round trip: parsing the rendered text of a            *)
(* well-formed noun n returns n, and rendering the parse of a written      *)
(* expression yields its text with the blanks normalised to single spaces, *)
(* every digit run written as the decimal digits of its value (dots and    *)
(* leading zeros dropped) and the cells in last position flattened.        *)
(***************************************************************************)
C14_RoundTrip ==
    /\ (FirstParsed /\ shape = "render") =>
          (expr = Ok(subj) /\ fmt(expr.val) = toker.reader.expr[1])
    /\ (FirstParsed /\ shape = "layout") =>
          (expr.ok /\ fmt(expr.val) = SynCanon(ops[1], TRUE))
    /\ (pc = "stopped" /\ shape \in {"render", "layout"}) => result # None

\* A written expression with a cell in last position and a digit run of
\* two digits was parsed and renders as its flattened text.
C14_Witness ==
    /\ FirstParsed /\ shape = "layout"
    /\ ops[1].t = "Cell" /\ ops[1].l[2].t = "Cell"
    /\ ops[1].l[1].t = "Atom" /\ ops[1].l[1].sp = <<"1", ".", "0">>
    /\ expr.ok /\ Len(expr.val.l) = 3

(***************************************************************************)
(* C14 as it is stated: rendering the parse of a valid expression text     *)
(* yields that text with whitespace normalised to single spaces and tail   *)
(* cells flattened, the digit runs as they are written.                    *)
(***************************************************************************)
C14_RoundTripAsStated ==
    (FirstParsed /\ shape = "layout") =>
        (expr.ok /\ fmt(expr.val) = SynCanon(ops[1], FALSE))

\* the error comes from a read() of the reader that failed: end of input
EndOfInput(err) == ~err.ok /\ root_cause(err).ty = "WrappedError"

(***************************************************************************)
(* C15: failures are per-expression in the read-eval loop: an expression   *)
(* whose evaluation fails has its error printed and the loop goes on, and  *)
(* the loop stops only when the reader signals end of input: a parse that  *)
(* fails for another reason does not stop it.                              *)
(***************************************************************************)
C15_FailuresArePerExpression ==
    /\ pc = "printed" => (log # <<>> /\ log[Len(log)] = printed_line(result))
    /\ pc = "stopped" => EndOfInput(expr)

(***************************************************************************)
(* SpecTok: a Tokenizer over a MockReader that holds one or two lines, and *)
(* a caller that calls next() again and again, whatever it returned; log   *)
(* is the sequence of the Results of the calls.                            *)
(***************************************************************************)
\* a single line has at most MaxLineLen characters
MaxLineLen == 4

\* each of two lines has at most MaxPairLineLen characters
MaxPairLineLen == 2

\* next() is called at most MaxCalls times
MaxCalls == 5

\* brackets, a digit, the blanks that are skipped, a dot and a character
\* that is no part of the syntax
TokChars == {"[", "]", "1", " ", "\t", ".", "a"}

LinesUpTo(n) == UNION {[1..k -> TokChars] : k \in 0..n}

\* the reader holds one line, or two lines
InitTok ==
    /\ \/ \E l \in LinesUpTo(MaxLineLen) :
             toker = new_tokenizer(new_mock_reader(<<l>>))
       \/ \E l1 \in LinesUpTo(MaxPairLineLen), l2 \in LinesUpTo(MaxPairLineLen) :
             toker = new_tokenizer(new_mock_reader(<<l1, l2>>))
    /\ log = <<>>
    /\ subj = Atom(0)
    /\ ops = <<>>
    /\ addr = 0
    /\ formula = None
    /\ result = None
    /\ shape = "none"
    /\ expr = None
    /\ ctl = None
    /\ stack = <<>>
    /\ pc = "ready"

\* toker.next() returned r
Called(r) ==
    /\ toker' = r.tk
    /\ log' = Append(log, r.res)
    /\ pc' = IF ~r.res.ok /\ r.res.ty = "panic" THEN "panicked" ELSE "called"

CallNext ==
    /\ pc \in {"ready", "called"}
    /\ Len(log) < MaxCalls
    /\ Called(next(toker))
    /\ UNCHANGED <<ctl, stack, subj, ops, addr, formula, result, shape, expr>>

NextTok == CallNext

SpecTok == InitTok /\ [][NextTok]_vars

\* the lines the reader was built with
SourceLines == toker.reader.expr

\* Only brackets, digits and the four blanks occur in the lines.
ValidLines(lines) ==
    \A i \in 1..Len(lines) : \A j \in 1..Len(lines[i]) :
        \/ lines[i][j] \in {"[", "]", " ", "\t", "\r", "\n"}
        \/ IsDigit(lines[i][j])

\* the column (zero-based) after the digits that start at column c
RECURSIVE DigitsEnd(_, _)
DigitsEnd(line, c) ==
    IF c < Len(line) /\ IsDigit(line[c + 1]) THEN DigitsEnd(line, c + 1) ELSE c

\* the column (zero-based) after the digits and dots that start at column c
RECURSIVE RunEnd(_, _)
RunEnd(line, c) ==
    IF c < Len(line) /\ (IsDigit(line[c + 1]) \/ line[c + 1] = ".")
    THEN RunEnd(line, c + 1) ELSE c

\* The tokens of a line read from column c on: each bracket, and each
\* maximal run of digits, with the line and the column where it starts.
RECURSIVE RefScan(_, _, _)
RefScan(line, li, c) ==
    IF c >= Len(line) THEN <<>>
    ELSE IF line[c + 1] \in {"[", "]"}
    THEN <<[line |-> li, col |-> c, val |-> <<line[c + 1]>>]>>
            \o RefScan(line, li, c + 1)
    ELSE IF IsDigit(line[c + 1])
    THEN <<[line |-> li, col |-> c,
            val |-> SubSeq(line, c + 1, DigitsEnd(line, c))]>>
            \o RefScan(line, li, DigitsEnd(line, c))
    ELSE RefScan(line, li, c + 1)

\* the tokens of the lines from line li (zero-based) on
RECURSIVE RefTokensFrom(_, _)
RefTokensFrom(lines, li) ==
    IF li >= Len(lines) THEN <<>>
    ELSE RefScan(lines[li + 1], li, 0) \o RefTokensFrom(lines, li + 1)

RefTokens(lines) == RefTokensFrom(lines, 0)

C17_NoDotInTokenText ==
    pc = "called" =>
        \A i \in 1..Len(log) :
            log[i].ok =>
                \/ log[i].val.val = <<"[">>
                \/ log[i].val.val = <<"]">>
                \/ /\ Len(log[i].val.val) > 0
                   /\ \A j \in 1..Len(log[i].val.val) : IsDigit(log[i].val.val[j])

(***************************************************************************)
(* C18: end of input is sticky: once a call of next() has failed because   *)
(* the reader's read() failed, every later call returns an error too; no   *)
(* token of the consumed lines is delivered a second time.                 *)
(***************************************************************************)
C18_EndOfInputIsSticky ==
    pc = "called" =>
        \A i \in 1..Len(log) : \A j \in 1..Len(log) :
            (i < j /\ EndOfInput(log[i])) => ~log[j].ok

\* the token is a run: its text starts with a digit or a dot
IsRun(tok) == Len(tok.val) > 0 /\ (IsDigit(tok.val[1]) \/ tok.val[1] = ".")

(***************************************************************************)
(* C19: pushback loses and duplicates no character: when a run is ended by *)
(* a character that is no digit, no dot and no blank, the cursor is left   *)
(* on that character, on the same line, and the next call of next()        *)
(* returns it as a token with its own column, or, when it is no bracket,   *)
(* reports it as an invalid character; the column is never below 0.        *)
(***************************************************************************)
C19_PushbackKeepsCharacter ==
    /\ toker.col >= 0
    /\ \A i \in 1..Len(log) :
          (log[i].ok /\ IsRun(log[i].val)) =>
              LET t == log[i].val
                  line == SourceLines[t.line + 1]
                  e == RunEnd(line, t.col)
              IN  (e < Len(line) /\ ~is_whitespace(line[e + 1])) =>
                      /\ i = Len(log) => (toker.line = t.line /\ toker.col = e)
                      /\ i < Len(log) =>
                            IF line[e + 1] \in {"[", "]"}
                            THEN log[i + 1] = Ok([line |-> t.line, col |-> e,
                                                  val |-> <<line[e + 1]>>])
                            ELSE /\ ~log[i + 1].ok
                                 /\ log[i + 1].msg = "Invalid Character"

\* The line "11]" was read: the run 11 was ended by the bracket, which the
\* next call returned with column 2.
C19_Witness ==
    /\ pc = "called" /\ Len(log) >= 2
    /\ log[1].ok /\ log[1].val.val = <<"1", "1">>
    /\ log[2].ok /\ log[2].val.val = <<"]">> /\ log[2].val.col = 2

\* The tokens that next() hands out from the tokenizer tk on, up to the
\* call that leaves the tokenizer as stop, or up to the first error.
RECURSIVE TokensUntil(_, _)
TokensAfter(r, stop) ==
    IF ~r.res.ok THEN <<>> ELSE <<r.res.val>> \o TokensUntil(r.tk, stop)

TokensUntil(tk, stop) ==
    IF tk = stop THEN <<>> ELSE TokensAfter(next(tk), stop)

\* the tokens that the first parse() took from the tokenizer
ParsedTokens == TokensUntil(new_parser(SourceLines), toker)

\* the first token of the source lines
FirstToken == next(new_parser(SourceLines)).res

(***************************************************************************)
(* C20: every unexpected token is a fatal parse error: parse() returns a   *)
(* ParseError when the token where the noun must start is neither a digit  *)
(* run nor "[", and a parse() that returns a noun has met only digit runs, *)
(* "[" and "]": no other token is passed over inside a cell.               *)
(***************************************************************************)
C20_UnexpectedTokenIsError ==
    (shape = "raw" /\ result = None /\ pc \in {"parsed", "stopped"}) =>
        /\ (FirstToken.ok /\ ~is_atom(FirstToken.val)
                          /\ ~is_cell_start(FirstToken.val)) =>
               (~expr.ok /\ expr.ty = "ParseError")
        /\ expr.ok =>
               \A i \in 1..Len(ParsedTokens) :
                   \/ is_atom(ParsedTokens[i])
                   \/ is_cell_start(ParsedTokens[i])
                   \/ is_cell_end(ParsedTokens[i])

\* no Cell at any depth of the noun has a Cell as its last element
RECURSIVE Flattened(_)
Flattened(n) ==
    IsAtom(n) \/ (/\ Len(n.l) >= 1 => IsAtom(n.l[Len(n.l)])
                  /\ \A i \in 1..Len(n.l) : Flattened(n.l[i]))

(***************************************************************************)
(* C21: every noun that parse() returns is flattened (no Cell at any depth *)
(* has a Cell as its last element), and so is every noun that compute      *)
(* returns for a noun that parse() returned; the parse of the text of      *)
(* [subject formula], written flat or with every Cell as a pair, is the    *)
(* Cell that cell! builds from the subject and the formula.                *)
(***************************************************************************)
C21_FlattenedShape ==
    /\ pc = "parsed" => Flattened(expr.val)
    /\ (pc = "parsed" /\ shape = "evaluate") => expr = Ok(cell(<<subj, formula>>))
    /\ (pc = "printed" /\ result.ok) => Flattened(result.val)

\* A distribution whose tail evaluated to a Cell was computed from parsed
\* text: the elements of the tail's Cell were spliced after the head's
\* result.
C21_Witness ==
    /\ pc = "printed" /\ shape = "evaluate"
    /\ Distributes(formula)
    /\ result = Ok(Cell(<<Atom(0), Atom(0), Atom(0)>>))

\* The other ways a Cell comes out of compute were computed from parsed
\* text: quote, slot addressing and a macro rewrite.
C21_QuotedCell ==
    /\ pc = "printed" /\ shape = "evaluate"
    /\ OpcodeOf(formula) = 1 /\ result.ok /\ IsCell(result.val)

C21_SlotCell ==
    /\ pc = "printed" /\ shape = "evaluate"
    /\ OpcodeOf(formula) = 0 /\ result.ok /\ IsCell(result.val)

C21_MacroCell ==
    /\ pc = "printed" /\ shape = "evaluate"
    /\ OpcodeOf(formula) \in 6..10 /\ result.ok /\ IsCell(result.val)

(***************************************************************************)
(* SpecFile: main run on a file (nock -f FILE).  eval_exprs runs on a      *)
(* Parser over a FileExpressionReader: parse, and while the parse succeeds *)
(* evaluate, print and parse again.  A parse() that needs a batch is       *)
(* inside reader.read(), whose loop takes one line of the file per turn;   *)
(* the parse goes on when the read has returned.                           *)
(***************************************************************************)
\* the file has at most MaxFileLen characters
MaxFileLen == 6

FileChars == {"[", "]", "1", " ", "\n"}

FileTexts == UNION {[1..n -> FileChars] : n \in 0..MaxFileLen}

\* The lines of the buffer that the model keeps.  A file of MaxFileLen
\* characters has at most MaxFileLen + 1 lines, the empty line at its end
\* included; the lines pushed beyond them are empty lines read at the end
\* of the file, which is_complete_expr counts as nothing: of them the model
\* keeps the number modulo 2, in more.
BufferLines == MaxFileLen + 2

buffer_push(buffer, line) ==
    IF Len(buffer) < BufferLines THEN Append(buffer, line) ELSE buffer

more_push(buffer, more) == IF Len(buffer) < BufferLines THEN 0 ELSE 1 - more

InitFile ==
    /\ subj = Atom(0)
    /\ ops = <<>>
    /\ addr = 0
    /\ formula = None
    /\ result = None
    /\ expr = None
    /\ ctl = None
    /\ stack = <<>>
    /\ log = <<>>
    /\ shape = "file"
    /\ pc = "ready"
    /\ \E text \in FileTexts : toker = new_tokenizer(new_file_reader(text))

\* the parse() of the loop head has all the batches it asks for: it returns
ParseReturned(p) == ~Pending(p.res) /\ Parsed(p)

ParseFile ==
    /\ pc \in {"ready", "printed"}
    /\ ParseReturned(parse(toker))
    /\ UNCHANGED <<ctl, stack, log, subj, ops, addr, formula, result, shape>>

\* FileExpressionReader::read, its entry: the end-of-file error when eof is
\* set, else an empty buffer and into the loop
read_enter(rd) ==
    IF rd.eof
    THEN [rd EXCEPT !.returned =
              Append(@, new_error("WrappedError", "End of File"))]
    ELSE [rd EXCEPT !.buffer = <<>>, !.more = 0]

\* the parse() of the loop head asks for a batch that no read() has
\* returned yet: the tokenizer calls reader.read()
CallRead ==
    /\ pc \in {"ready", "printed"}
    /\ Pending(parse(toker).res)
    /\ toker' = [toker EXCEPT !.reader = read_enter(@)]
    /\ pc' = IF toker.reader.eof THEN "ready" ELSE "reading"
    /\ UNCHANGED <<ctl, stack, log, subj, ops, addr, formula, result, shape,
                   expr>>

\* one turn of the loop of read, l the outcome of read_line: push the line,
\* set eof when nothing was read, and return the buffer when it is complete
read_turn(rd, l) ==
    IF is_complete_expr(buffer_push(rd.buffer, l.line))
    THEN [rd EXCEPT !.rest = l.rest,
                    !.eof = @ \/ Len(l.line) < 1,
                    !.buffer = <<>>,
                    !.more = 0,
                    !.returned = Append(@, Ok(buffer_push(rd.buffer, l.line)))]
    ELSE [rd EXCEPT !.rest = l.rest,
                    !.eof = @ \/ Len(l.line) < 1,
                    !.buffer = buffer_push(@, l.line),
                    !.more = more_push(rd.buffer, @)]

ReadLine ==
    /\ pc = "reading"
    /\ toker' = [toker EXCEPT !.reader = read_turn(@, read_line(@.rest))]
    /\ pc' = IF toker'.reader.buffer = <<>> THEN "ready" ELSE "reading"
    /\ UNCHANGED <<ctl, stack, log, subj, ops, addr, formula, result, shape,
                   expr>>

NextFile == ParseFile \/ Eval \/ CallRead \/ ReadLine

SpecFile == InitFile /\ [][NextFile]_vars

\* a read() that is running goes on running: its loop takes its next turn
SpecFileFair == SpecFile /\ WF_vars(ReadLine)

(***************************************************************************)
(* C22: run on a file, every read() of the file reader returns after       *)
(* reading finitely many lines: a call that has entered the loop of read   *)
(* leaves it, with a batch for the tokenizer; this includes a file whose   *)
(* last expression has an unclosed "[".                                    *)
(***************************************************************************)
C22_EveryReadReturns == (pc = "reading") ~> (pc = "ready")

(***************************************************************************)
(* SpecCalls: parse() called again and again on one Parser over a          *)
(* MockReader, whatever the calls return; log is the sequence of their     *)
(* Results.                                                                *)
(***************************************************************************)
CallChars == {"[", "]", "1", " "}

CallLinesUpTo(n) == UNION {[1..k -> CallChars] : k \in 0..n}

\* the reader holds one line of up to MaxTextLen characters, or two lines
\* of up to MaxPairLineLen characters
InitCalls ==
    /\ \/ \E l \in CallLinesUpTo(MaxTextLen) :
             toker = new_parser(<<l>>)
       \/ \E l1 \in CallLinesUpTo(MaxPairLineLen),
             l2 \in CallLinesUpTo(MaxPairLineLen) :
             toker = new_parser(<<l1, l2>>)
    /\ log = <<>>
    /\ subj = Atom(0)
    /\ ops = <<>>
    /\ addr = 0
    /\ formula = None
    /\ result = None
    /\ shape = "none"
    /\ expr = None
    /\ ctl = None
    /\ stack = <<>>
    /\ pc = "ready"

\* parser.parse() returned p
CallParsed(p) ==
    /\ toker' = p.tk
    /\ log' = Append(log, p.res)
    /\ pc' = IF ~p.res.ok /\ p.res.ty = "panic" THEN "panicked" ELSE "called"

CallParse ==
    /\ pc \in {"ready", "called"}
    /\ Len(log) < MaxCalls
    /\ CallParsed(parse(toker))
    /\ UNCHANGED <<ctl, stack, subj, ops, addr, formula, result, shape, expr>>

NextCalls == CallParse

SpecCalls == InitCalls /\ [][NextCalls]_vars

\* the depth of brackets after the tokens i..j: +1 for "[", -1 for "]"
RECURSIVE Depth(_, _, _)
Depth(toks, i, j) ==
    IF i > j THEN 0
    ELSE (IF is_cell_start(toks[i]) THEN 1
          ELSE IF is_cell_end(toks[i]) THEN -1 ELSE 0) + Depth(toks, i + 1, j)

\* The index of the last token of the expression that starts at token i, or
\* 0 when no expression starts there: an atom is an expression, and so are
\* the tokens from a "[" to the "]" that matches it when no "[" among them
\* is followed at once by a "]".
GroupEnd(toks, i) ==
    IF is_atom(toks[i]) THEN i
    ELSE IF /\ is_cell_start(toks[i])
            /\ \E j \in i..Len(toks) :
                  /\ Depth(toks, i, j) = 0
                  /\ \A k \in i..(j - 1) :
                        Depth(toks, i, k) > 0
                        /\ ~(is_cell_start(toks[k]) /\ is_cell_end(toks[k + 1]))
    THEN CHOOSE j \in i..Len(toks) :
            Depth(toks, i, j) = 0 /\ \A k \in i..(j - 1) : Depth(toks, i, k) > 0
    ELSE 0

\* the top-level expressions of the tokens from token i on, each as the
\* indices of its first and its last token, up to the first token that
\* starts no expression
RECURSIVE RefGroups(_, _)
RefGroupsAt(toks, i, e) ==
    IF e = 0 THEN <<>>
    ELSE <<[first |-> i, last |-> e]>> \o RefGroups(toks, e + 1)

RefGroups(toks, i) ==
    IF i > Len(toks) THEN <<>> ELSE RefGroupsAt(toks, i, GroupEnd(toks, i))

\* the values of the atom tokens among the tokens i..j, in order
RECURSIVE GroupValues(_, _, _)
GroupValues(toks, i, j) ==
    IF i > j THEN <<>>
    ELSE (IF is_atom(toks[i]) THEN <<from_str(toks[i].val)>> ELSE <<>>)
         \o GroupValues(toks, i + 1, j)

\* the atoms of a noun, left to right
RECURSIVE Leaves(_)
RECURSIVE LeavesOfList(_)
LeavesOfList(list) ==
    IF list = <<>> THEN <<>> ELSE Leaves(Head(list)) \o LeavesOfList(Tail(list))

Leaves(n) == IF IsAtom(n) THEN <<n.v>> ELSE LeavesOfList(n.l)

\* call i returned expression g of the tokens
ReturnedGroup(res, toks, g) ==
    res.ok /\ Leaves(res.val) = GroupValues(toks, g.first, g.last)

\* after the call that returned expression g, the next token that the
\* tokenizer tk hands out is the token after the last token of g, or the
\* end of the input, and tk still holds the batch it read first
LeftAfterGroup(tk, lines, toks, g) ==
    /\ tk.curr = Some(lines)
    /\ IF g.last < Len(toks)
       THEN next(tk).res = Ok(toks[g.last + 1])
       ELSE EndOfInput(next(tk).res)

CallsReturnGroups(tk, lines, toks, groups) ==
    /\ \A i \in 1..Len(log) :
          /\ i <= Len(groups) => ReturnedGroup(log[i], toks, groups[i])
          /\ i = Len(groups) + 1 => ~log[i].ok
    /\ (Len(log) >= 1 /\ Len(log) <= Len(groups)) =>
          LeftAfterGroup(tk, lines, toks, groups[Len(log)])

(***************************************************************************)
(* C23: successive parse() calls on one Parser return the top-level        *)
(* expressions of the reader's lines in source order: call i returns the   *)
(* i-th expression, it consumes the tokens of that expression up to and    *)
(* including its matching "]" and leaves the token after it for the next   *)
(* call, no new batch is read while the lines of the batch hold an         *)
(* expression, and the call after the last expression fails.               *)
(***************************************************************************)
C23_SuccessiveExpressions ==
    pc = "called" =>
        CallsReturnGroups(toker, SourceLines, RefTokens(SourceLines),
                          RefGroups(RefTokens(SourceLines), 1))

\* "[1 1]1" was parsed by three calls: the Cell, the atom after its "]",
\* and the end of the input.
C23_Witness ==
    /\ pc = "called" /\ Len(SourceLines) = 1 /\ Len(log) = 3
    /\ log[1] = Ok(Cell(<<Atom(1), Atom(1)>>))
    /\ log[2] = Ok(Atom(1))
    /\ EndOfInput(log[3])

\* An expression that spans the two lines of the batch was returned, and
\* the call after it met the end of the input.
C23_SpansLines ==
    /\ pc = "called" /\ SourceLines = <<<<"[", "1">>, <<"1", "]">>>>
    /\ Len(log) = 2
    /\ log[1] = Ok(Cell(<<Atom(1), Atom(1)>>))
    /\ EndOfInput(log[2])

\* the lines of a text, each with its newline, as read_line hands them out
RECURSIVE FileLines(_)
FileLinesAfter(l) == <<l.line>> \o FileLines(l.rest)

FileLines(rest) == IF rest = <<>> THEN <<>> ELSE FileLinesAfter(read_line(rest))

\* what eval_exprs prints on the parser tk
RECURSIVE Printed(_)
PrintedAfter(p) ==
    IF ~p.res.ok THEN <<>>
    ELSE <<printed_line(compute(p.res.val))>> \o Printed(p.tk)

Printed(tk) == PrintedAfter(parse(tk))

IsPrefix(s, t) == Len(s) <= Len(t) /\ SubSeq(t, 1, Len(s)) = s

\* Run on a file, whose lines reach the parser in several batches, the
\* loop prints what it prints when all the lines of the file come in one
\* batch, and all of it when the loop has ended.
C23_AcrossBatches ==
    /\ IsPrefix(log, Printed(new_parser(FileLines(toker.reader.text))))
    /\ pc = "stopped" =>
          log = Printed(new_parser(FileLines(toker.reader.text)))

\* the loop ended after it printed two lines for a file of two batches
C23_TwoBatches ==
    /\ pc = "stopped" /\ Len(log) = 2
    /\ toker.reader.text = <<"1", "\n", "[", "1", "]">>
====
